---------------------------- MODULE Spec2Model ----------------------------
(***************************************************************************)
(* Model of docs/examples/cpp/actuator_sensor_control.cpp: the Actuator,   *)
(* the JointController (PID step with velocity interlock and thermal       *)
(* derating), the SafetyMonitor (latching emergency stop) and the control  *)
(* loop of HumanoidController::run() with a host thread beside it.         *)
(*                                                                         *)
(* Numbers.  The code computes in double; the model computes the same      *)
(* expressions exactly on a grid:                                          *)
(*   positions (rad), velocities (rad/s), temperatures (Celsius):          *)
(*       hundredths (Scale units per 1.0);                                 *)
(*   dt: ticks of 1/TicksPerSecond s (1 tick = the 200 Hz period);         *)
(*   error_sum_: hundredths of a radian times ticks;                       *)
(*   torques: 1/(Scale * TicksPerSecond) N*m, the unit in which            *)
(*       kp*error + ki*error_sum + kd*derivative is an integer.            *)
(***************************************************************************)
EXTENDS Integers, FiniteSets, Sequences, TLC

(***************************************************************************)
(* Bounds of the model.                                                    *)
(***************************************************************************)
NumJoints == 1        \* controllers (and joint sensors) registered
NumImus == 1          \* IMU sensors registered
MaxErrorSum == 700    \* |error_sum_| the state-machine specifications explore
MaxCycles == 2        \* control-loop iterations SpecRun explores
MaxCommands == 2      \* setTorque calls SpecActuator explores

Joints == 1..NumJoints
Imus == 1..NumImus

(***************************************************************************)
(* Units and program constants.                                            *)
(***************************************************************************)
Scale == 100
TicksPerSecond == 200
Kp == 100
Ki == 10
Kd == 5
MaxTemperature == 70 * Scale
MaxVelocity == 5 * Scale
MaxPosition == 314
MinPosition == -314
MaxTorque == 50 * Scale * TicksPerSecond
RobotJoints == 6
RobotImus == 2

Mag(x) == IF x < 0 THEN -x ELSE x

VARIABLES
    abs_is_int,              \* the build: unqualified abs() is int abs(int)
    ctl,                     \* joint_controllers_: the JointController objects
    emergency_stop_active_,  \* SafetyMonitor::emergency_stop_active_
    js_connected,            \* joint_sensors_[i].isConnected()
    imu_connected,           \* imu_sensors_[i].isConnected()
    lastOp,                  \* the last call that returned a value
    ret,                     \* what it returned
    reason,                  \* why the last checkSafety() returned what it did
    unsafe_seen,             \* history: a checkSafety() found an unsafe controller
    stop_triggered,          \* history: triggerEmergencyStop() was called
    disconnect_seen,         \* history: a checkSafety() reported a disconnection
    is_running_,             \* HumanoidController::is_running_
    pc,                      \* where the thread in run() is
    exit_cause,              \* history: the loop-top test that ended the loop
    reported,                \* the cause run() printed
    stop_requested,          \* history: stop() was called
    stop_early,              \* history: stop() was called before the loop
    cycles,                  \* history: iterations started
    cycles_after_stop,       \* history: iterations started after a stop()
    cycles_after_trip,       \* history: iterations started with the latch set
    act,                     \* a standalone Actuator's current_torque_
    commanded,               \* history: the last torque passed to setTorque
    n_commands,              \* history: setTorque calls made
    pre,                     \* history: the controller as update(dt) found it
    dt_used,                 \* history: the dt passed to update
    unit_pc,                 \* "input" before the update under test, "output" after
    evaluated,               \* what the last checkSafety() evaluated, in order
    joint_sensors_,          \* HumanoidController::joint_sensors_: their state_
    imu_sensors_,            \* HumanoidController::imu_sensors_: their data_
    joint_states_,           \* SensorFusion::joint_states_
    imu_data_,               \* SensorFusion::imu_data_
    balance_estimate_,       \* SensorFusion::balance_estimate_
    fusion_hist,             \* history: the last call on the SensorFusion
    fp_torque,               \* history: the last update's divisor and the
                             \* floating-point classes of what it commanded
    nom,                     \* the nominal scenario: clock, noise and one joint
    timing,                  \* run(): the cycle's measured time and what
                             \* the end of the cycle did with it
    sched,                   \* the cycle timing of a robot as main() builds it
    mutexes,                 \* threads: the holder of each std::mutex
    objects,                 \* threads: the fields of each guarded object
    threads,                 \* threads: the call each thread is in
    stamps,                  \* the timestamps the sensors store
    noise                    \* Sensor::addNoise's static counter and callers

worldVars == <<abs_is_int, ctl, emergency_stop_active_, js_connected,
               imu_connected>>
obsVars == <<lastOp, ret, reason, evaluated>>
histVars == <<unsafe_seen, stop_triggered, disconnect_seen>>

runVars == <<is_running_, pc, exit_cause, reported, stop_requested,
             stop_early, cycles, cycles_after_stop, cycles_after_trip>>

unitVars == <<act, commanded, n_commands, pre, dt_used, unit_pc>>

fusionVars == <<joint_sensors_, imu_sensors_, joint_states_, imu_data_,
                balance_estimate_, fusion_hist>>

lateVars == <<timing, sched, mutexes, objects, threads, stamps, noise>>

coreVars == <<worldVars, obsVars, histVars, runVars, unitVars, fusionVars,
              fp_torque, nom>>

vars == <<worldVars, obsVars, histVars, runVars, unitVars, fusionVars,
          fp_torque, nom, lateVars>>

(***************************************************************************)
(* abs().  The file includes <cmath> and calls abs unqualified, without    *)
(* a using-directive.  Whether that finds the double overload or only      *)
(* int abs(int) of <stdlib.h> depends on the standard library: libstdc++   *)
(* gives int abs(int) (the argument is truncated toward zero), libc++ and  *)
(* MSVC the double overload.  abs_is_int is that property of the build.    *)
(***************************************************************************)
CAbs(x) == IF abs_is_int THEN (Mag(x) \div Scale) * Scale ELSE Mag(x)

Clamp(v, lo, hi) == IF v < lo THEN lo ELSE IF hi < v THEN hi ELSE v

(***************************************************************************)
(* Actuator::setTorque: the stored torque after a command.                 *)
(***************************************************************************)
SetTorqueUpperOnly(torque) == IF torque > MaxTorque THEN MaxTorque ELSE torque

SetTorque(torque) == Clamp(torque, -MaxTorque, MaxTorque)

(***************************************************************************)
(* JointState and JointController as constructed.                          *)
(***************************************************************************)
InitJointState == [position |-> 0, velocity |-> 0, torque |-> 0,
                   temperature |-> 25 * Scale]

InitController == [enabled_ |-> FALSE, target_position_ |-> 0,
                   error_sum_ |-> 0, last_error_ |-> 0,
                   state_ |-> InitJointState, current_torque_ |-> 0]

(***************************************************************************)
(* JointSensor::read.  Each field moves by a term in sin/cos of the wall   *)
(* clock plus noise from the shared counter, both inputs of the            *)
(* environment: the sample a read leaves is drawn from a set of samples    *)
(* <<position, velocity, temperature>>.  The torque field is kept: update  *)
(* overwrites it before the state is stored back.                          *)
(***************************************************************************)
ReadSample(state, s) == [state EXCEPT !.position = s[1], !.velocity = s[2],
                                      !.temperature = s[3]]

Samples ==
    { <<0, 0, 2500>>,       \* nominal
      <<0, 550, 2500>>,     \* 5.5 rad/s: over max_velocity_
      <<0, 0, 7000>>,       \* 70 C: at max_temperature_
      <<350, 0, 2500>> }    \* 3.5 rad: over max_position_

DtTicks == {1, 2}           \* 200 Hz (main) and 100 Hz (the default)
LoopDt == 1                 \* dt of run() at the 200 Hz of main

(***************************************************************************)
(* JointController::update, the PID step.                                  *)
(***************************************************************************)
PidOutput(error, error_sum, last_error, dt) ==
    Kp * error * TicksPerSecond
    + Ki * error_sum
    + Kd * (((error - last_error) * TicksPerSecond * TicksPerSecond) \div dt)

VelocityLimited(state, torque_command) ==
    IF CAbs(state.velocity) > MaxVelocity THEN 0 ELSE torque_command

DerateTemperature == (MaxTemperature * 9) \div 10

TemperatureLimitedAtMax(state, torque_command) ==
    IF state.temperature >= MaxTemperature
    THEN torque_command \div 2 ELSE torque_command

TemperatureLimited(state, torque_command) ==
    IF state.temperature > DerateTemperature
    THEN torque_command \div 2 ELSE torque_command

TorqueCommand(c, state, dt) ==
    LET error == c.target_position_ - state.position
        error_sum == c.error_sum_ + error * dt
    IN  TemperatureLimited(state,
            VelocityLimited(state,
                PidOutput(error, error_sum, c.last_error_, dt)))

UpdateControllerUnguarded(c, s, dt) ==
    LET state == ReadSample(c.state_, s)
        error == c.target_position_ - state.position
        cmd == TorqueCommand(c, state, dt)
    IN  [c EXCEPT !.error_sum_ = c.error_sum_ + error * dt,
                  !.last_error_ = error,
                  !.current_torque_ = SetTorque(cmd),
                  !.state_ = [state EXCEPT !.torque = cmd]]

UpdateController(c, s, dt) ==
    IF ~c.enabled_ THEN c
    ELSE LET state == ReadSample(c.state_, s)
             error == c.target_position_ - state.position
             cmd == TorqueCommand(c, state, dt)
         IN  [c EXCEPT !.error_sum_ = c.error_sum_ + error * dt,
                       !.last_error_ = error,
                       !.current_torque_ = SetTorque(cmd),
                       !.state_ = [state EXCEPT !.torque = cmd]]

(***************************************************************************)
(* JointController::isSafe.                                                *)
(***************************************************************************)
IsSafeIgnoringVelocity(c) ==
    /\ c.state_.temperature < MaxTemperature
    /\ CAbs(c.state_.position) <= MaxPosition
    /\ CAbs(c.state_.position) >= MinPosition

IsSafe(c) ==
    /\ c.state_.temperature < MaxTemperature
    /\ CAbs(c.state_.velocity) < MaxVelocity
    /\ CAbs(c.state_.position) <= MaxPosition
    /\ CAbs(c.state_.position) >= MinPosition

AllSafe == \A j \in Joints : IsSafe(ctl[j])
AllConnected == /\ \A j \in Joints : js_connected[j]
                /\ \A i \in Imus : imu_connected[i]

(***************************************************************************)
(* SafetyMonitor::checkSafety: <<returned value, the latch afterwards,     *)
(* why>>.                                                                  *)
(***************************************************************************)
LatchOnUnsafeSkipped(active) == active
LatchOnUnsafe(active) == TRUE

EarlyReturnSkipped(active) == FALSE
EarlyReturn(active) == active

LatchOnDisconnectAdded(active) == TRUE
LatchOnDisconnect(active) == active

CheckSafetyResult ==
    IF EarlyReturn(emergency_stop_active_)
    THEN <<FALSE, emergency_stop_active_, "estop">>
    ELSE IF ~AllSafe
    THEN <<FALSE, LatchOnUnsafe(emergency_stop_active_), "controller">>
    ELSE IF \E j \in Joints : ~js_connected[j]
    THEN <<FALSE, LatchOnDisconnect(emergency_stop_active_), "joint_sensor">>
    ELSE IF \E i \in Imus : ~imu_connected[i]
    THEN <<FALSE, LatchOnDisconnect(emergency_stop_active_), "imu_sensor">>
    ELSE <<TRUE, emergency_stop_active_, "ok">>

(***************************************************************************)
(* The operations, each called by one thread at a time.  lastOp, ret and   *)
(* reason record the last call that returns a value; a void call leaves    *)
(* "void", TRUE, "none".                                                   *)
(***************************************************************************)
Void == /\ lastOp' = "void"
        /\ ret' = TRUE
        /\ reason' = "none"
        /\ evaluated' = <<>>

SensorReasons == {"joint_sensor", "imu_sensor"}

Initialize(j) ==
    /\ ctl' = [ctl EXCEPT ![j].enabled_ = TRUE]
    /\ Void
    /\ UNCHANGED <<abs_is_int, emergency_stop_active_, js_connected,
                   imu_connected, histVars, runVars, unitVars, fusionVars, fp_torque, nom, lateVars>>

Update(j) ==
    \E s \in Samples :
        /\ Mag(ctl[j].error_sum_ + (ctl[j].target_position_ - s[1]) * LoopDt)
               <= MaxErrorSum
        /\ ctl' = [ctl EXCEPT ![j] = UpdateController(ctl[j], s, LoopDt)]
        /\ Void
        /\ UNCHANGED <<abs_is_int, emergency_stop_active_, js_connected,
                       imu_connected, histVars, runVars, unitVars, fusionVars, fp_torque, nom, lateVars>>

IsSafeCall(j) ==
    /\ lastOp' = "isSafe"
    /\ ret' = IsSafe(ctl[j])
    /\ reason' = "none"
    /\ evaluated' = <<>>
    /\ UNCHANGED <<worldVars, histVars, runVars, unitVars, fusionVars, fp_torque, nom, lateVars>>

(***************************************************************************)
(* The order in which checkSafety walks what is registered with it, and    *)
(* the part of it one call evaluates: nothing when the latch is set, else  *)
(* everything up to and including the first entry that fails.              *)
(***************************************************************************)
ControllerChecks == [j \in 1..NumJoints |-> <<"controller", j>>]
JointSensorChecks == [j \in 1..NumJoints |-> <<"joint_sensor", j>>]
ImuSensorChecks == [i \in 1..NumImus |-> <<"imu_sensor", i>>]

CheckOrderSensorsFirst ==
    JointSensorChecks \o ImuSensorChecks \o ControllerChecks

CheckOrder == ControllerChecks \o JointSensorChecks \o ImuSensorChecks

Passes(e) ==
    IF e[1] = "controller" THEN IsSafe(ctl[e[2]])
    ELSE IF e[1] = "joint_sensor" THEN js_connected[e[2]]
    ELSE imu_connected[e[2]]

Evaluated(order) ==
    IF emergency_stop_active_ THEN <<>>
    ELSE LET failing == {k \in 1..Len(order) : ~Passes(order[k])}
         IN  IF failing = {} THEN order
             ELSE SubSeq(order, 1,
                         CHOOSE k \in failing : \A m \in failing : k <= m)

MonitorCheckSafety ==
    LET r == CheckSafetyResult
    IN  /\ lastOp' = "checkSafety"
        /\ ret' = r[1]
        /\ emergency_stop_active_' = r[2]
        /\ reason' = r[3]
        /\ evaluated' = Evaluated(CheckOrder)
        /\ unsafe_seen' = (unsafe_seen \/ r[3] = "controller")
        /\ disconnect_seen' = (disconnect_seen \/ r[3] \in SensorReasons)
        /\ UNCHANGED <<abs_is_int, ctl, js_connected, imu_connected,
                       stop_triggered>>

CheckSafety == MonitorCheckSafety /\ UNCHANGED <<runVars, unitVars, fusionVars, fp_torque, nom, lateVars>>

IsEmergencyStopActive ==
    /\ lastOp' = "isEmergencyStopActive"
    /\ ret' = emergency_stop_active_
    /\ reason' = "none"
    /\ evaluated' = <<>>
    /\ UNCHANGED <<worldVars, histVars, runVars, unitVars, fusionVars, fp_torque, nom, lateVars>>

MonitorTrigger ==
    /\ emergency_stop_active_' = TRUE
    /\ stop_triggered' = TRUE
    /\ Void
    /\ UNCHANGED <<abs_is_int, ctl, js_connected, imu_connected,
                   unsafe_seen, disconnect_seen>>

TriggerEmergencyStop == MonitorTrigger /\ UNCHANGED <<runVars, unitVars, fusionVars, fp_torque, nom, lateVars>>

(***************************************************************************)
(* Sensor::isConnected is virtual and reports the sensor's link: what it   *)
(* returns is the environment's.                                           *)
(***************************************************************************)
JointSensorLink(j) ==
    /\ js_connected' = [js_connected EXCEPT ![j] = ~js_connected[j]]
    /\ UNCHANGED <<abs_is_int, ctl, emergency_stop_active_, imu_connected,
                   obsVars, histVars, runVars, unitVars, fusionVars, fp_torque, nom, lateVars>>

ImuSensorLink(i) ==
    /\ imu_connected' = [imu_connected EXCEPT ![i] = ~imu_connected[i]]
    /\ UNCHANGED <<abs_is_int, ctl, emergency_stop_active_, js_connected,
                   obsVars, histVars, runVars, unitVars, fusionVars, fp_torque, nom, lateVars>>

(***************************************************************************)
(* The sensors HumanoidController reads each cycle, and the SensorFusion.  *)
(* Of a joint sensor's JointState the program uses the position and the    *)
(* timestamp; of an IMU's data the fusion uses the roll angle it extracts  *)
(* from the orientation, which is what the model keeps (in hundredths of   *)
(* a radian).  A timestamp is the number of the cycle the sample was read  *)
(* in, 0 for a sensor never read.  balance_estimate_ is kept in            *)
(* millionths (BalanceScale units per 1.0) and rounded down to them.       *)
(***************************************************************************)
JointNames ==
    << <<"l", "e", "f", "t", "_", "h", "i", "p">>,
       <<"l", "e", "f", "t", "_", "k", "n", "e", "e">>,
       <<"l", "e", "f", "t", "_", "a", "n", "k", "l", "e">>,
       <<"r", "i", "g", "h", "t", "_", "h", "i", "p">>,
       <<"r", "i", "g", "h", "t", "_", "k", "n", "e", "e">>,
       <<"r", "i", "g", "h", "t", "_", "a", "n", "k", "l", "e">> >>

AllJoints == 1..Len(JointNames)

Find(name, pattern) ==
    \E k \in 1..(Len(name) - Len(pattern) + 1) :
        SubSeq(name, k, k + Len(pattern) - 1) = pattern

IsHipJoint(name) == Find(name, <<"h", "i", "p">>)

BalanceScale == 1000000

ToBalance(x) == x * (BalanceScale \div Scale)

UpdateBalanceEstimateSwapped(estimate, joint_position) ==
    (3 * estimate + 7 * ToBalance(joint_position)) \div 10

UpdateBalanceEstimate(estimate, joint_position) ==
    (7 * estimate + 3 * ToBalance(joint_position)) \div 10

UpdateBalanceEstimateFromImu(estimate, roll) ==
    (8 * estimate + 2 * ToBalance(roll)) \div 10

FusionJointState(estimate, j, state) ==
    IF IsHipJoint(JointNames[j])
    THEN UpdateBalanceEstimate(estimate, state.position)
    ELSE estimate

NoJointState == [position |-> 0, timestamp |-> 0]
NoImuData == [roll |-> 0, timestamp |-> 0]

InitFusion ==
    /\ joint_sensors_ = [j \in Joints |-> NoJointState]
    /\ imu_sensors_ = [i \in Imus |-> NoImuData]
    /\ joint_states_ = [j \in AllJoints |-> NoJointState]
    /\ imu_data_ = [i \in Imus |-> NoImuData]
    /\ balance_estimate_ = 0
    /\ fusion_hist = [n |-> 0, call |-> "none", key |-> 0, value |-> 0,
                      before |-> 0]

NominalStart ==
    [clock |-> 0, cycle |-> 0, noise |-> 0, step |-> "top",
     position |-> 0, velocity |-> 0, torque |-> 0, temperature |-> 2500000,
     error_sum |-> 0, last_error |-> 0, current_torque |-> 0,
     safe |-> TRUE, tripped |-> FALSE]

InitNominal ==
    /\ fp_torque = [divisor |-> LoopDt, command |-> "finite",
                    stored |-> "finite"]
    /\ nom = NominalStart

InitWorld ==
    /\ abs_is_int \in BOOLEAN
    /\ ctl = [j \in Joints |-> InitController]
    /\ emergency_stop_active_ = FALSE
    /\ js_connected = [j \in Joints |-> TRUE]
    /\ imu_connected = [i \in Imus |-> TRUE]
    /\ lastOp = "void"
    /\ ret = TRUE
    /\ reason = "none"
    /\ evaluated = <<>>
    /\ unsafe_seen = FALSE
    /\ stop_triggered = FALSE
    /\ disconnect_seen = FALSE

InitRunVars ==
    /\ is_running_ = FALSE
    /\ pc = "run"
    /\ exit_cause = "none"
    /\ reported = "none"
    /\ stop_requested = FALSE
    /\ stop_early = FALSE
    /\ cycles = 0
    /\ cycles_after_stop = 0
    /\ cycles_after_trip = 0

InitUnitVars ==
    /\ act = 0
    /\ commanded = 0
    /\ n_commands = 0
    /\ pre = InitController
    /\ dt_used = LoopDt
    /\ unit_pc = "input"

(***************************************************************************)
(* The end of a cycle (lines 559-569).  Times are in milliseconds: the     *)
(* period dt of run() is PeriodMs, and what the cycle is measured to have  *)
(* taken is the settling delay of every enabled controller's setTorque     *)
(* (line 187) plus an overhead the machine decides.                        *)
(***************************************************************************)
PeriodMs == (LoopDt * 1000) \div TicksPerSecond
SettleMs == 1
Overheads == {0, 6}

NoTiming == [elapsed |-> 0, slept |-> 0, warned |-> FALSE]

SleepTimeAlways(elapsed_time, dt) == dt

\* lines 563-566: the argument of sleep_for, 0 when it is not called
SleepTime(elapsed_time, dt) ==
    IF elapsed_time < dt THEN dt - elapsed_time ELSE 0

\* lines 567-568
OverrunWarned(elapsed_time, dt) == ~(elapsed_time < dt)

(***************************************************************************)
(* Threads.  Every class guards its data with one std::mutex, taken by a   *)
(* lock_guard for the length of a member function.  A member function is   *)
(* the sequence of its lock, unlock and field accesses; a struct is        *)
(* assigned and copied member by member, so a JointState or an ImuData     *)
(* is written and read one field at a time.  What a write operation        *)
(* stores is marked with the version it makes of the object (one more      *)
(* than the version it found), so a value whose fields carry different     *)
(* versions is a mixture of two writes.                                    *)
(*                                                                         *)
(* mutexes[m] is the thread holding m, 0 when it is free.                  *)
(***************************************************************************)
MaxWrites == 3

Threads == {1, 2}

Mutexes == {"position_sensor_", "imu", "actuator_", "sensor_fusion_",
            "safety_monitor_"}

\* JointState: position, velocity, torque, temperature, timestamp;
\* ImuData: orientation, angular_velocity, linear_acceleration, timestamp
FieldCount == [state_ |-> 5, data_ |-> 4, current_torque_ |-> 1,
               joint_states_ |-> 5, imu_data_ |-> 4, balance_estimate_ |-> 1,
               emergency_stop_active_ |-> 1]

IdleThread == [op |-> "idle", ip |-> 0, id |-> 0, snap |-> {}]

Lock(m) == <<"lock", m, 0>>
Unlock(m) == <<"unlock", m, 0>>
NewVersion(o) == <<"version", o, 0>>
Skip == <<"skip", "", 0>>

WriteAll(o) ==
    <<NewVersion(o)>> \o [f \in 1..FieldCount[o] |-> <<"write", o, f>>]

CopyAll(o) == [f \in 1..FieldCount[o] |-> <<"copy", o, f>>]

\* lines 98-108
JointSensor_read ==
    <<Lock("position_sensor_")>> \o WriteAll("state_")
        \o <<Unlock("position_sensor_")>>

JointSensor_getStateUnlocked == CopyAll("state_")

\* lines 110-113
JointSensor_getState ==
    <<Lock("position_sensor_")>> \o CopyAll("state_")
        \o <<Unlock("position_sensor_")>>

\* lines 115-118
JointSensor_setState ==
    <<Lock("position_sensor_")>> \o WriteAll("state_")
        \o <<Unlock("position_sensor_")>>

\* lines 131-156
ImuSensor_read == <<Lock("imu")>> \o WriteAll("data_") \o <<Unlock("imu")>>

\* lines 158-161
ImuSensor_getData == <<Lock("imu")>> \o CopyAll("data_") \o <<Unlock("imu")>>

\* lines 180-191: the stored torque, then the 1 ms sleep with the lock held
Actuator_setTorque ==
    <<Lock("actuator_")>> \o WriteAll("current_torque_")
        \o <<Skip, Unlock("actuator_")>>

\* lines 193-196
Actuator_getTorque ==
    <<Lock("actuator_")>> \o CopyAll("current_torque_")
        \o <<Unlock("actuator_")>>

\* lines 247-281, enabled
JointController_update ==
    JointSensor_read \o JointSensor_getState \o Actuator_setTorque
        \o JointSensor_setState

\* lines 295-301 through getState at 287-289
JointController_isSafe == JointSensor_getState

\* lines 318-326, a hip joint
SensorFusion_updateJointState ==
    <<Lock("sensor_fusion_")>> \o WriteAll("joint_states_")
        \o WriteAll("balance_estimate_") \o <<Unlock("sensor_fusion_")>>

\* lines 328-334
SensorFusion_updateImuData ==
    <<Lock("sensor_fusion_")>> \o WriteAll("imu_data_")
        \o WriteAll("balance_estimate_") \o <<Unlock("sensor_fusion_")>>

\* lines 336-339
SensorFusion_getBalanceEstimate ==
    <<Lock("sensor_fusion_")>> \o CopyAll("balance_estimate_")
        \o <<Unlock("sensor_fusion_")>>

\* lines 341-344
SensorFusion_getJointStates ==
    <<Lock("sensor_fusion_")>> \o CopyAll("joint_states_")
        \o <<Unlock("sensor_fusion_")>>

\* lines 423-426
SafetyMonitor_isEmergencyStopActive ==
    <<Lock("safety_monitor_")>> \o CopyAll("emergency_stop_active_")
        \o <<Unlock("safety_monitor_")>>

\* lines 428-432
SafetyMonitor_triggerEmergencyStop ==
    <<Lock("safety_monitor_")>> \o WriteAll("emergency_stop_active_")
        \o <<Unlock("safety_monitor_")>>

\* lines 388-394: the latch is set
SafetyMonitor_checkSafety_tripped ==
    <<Lock("safety_monitor_"), Skip, Unlock("safety_monitor_")>>

SafetyMonitor_checkSafety_relocking ==
    <<Lock("safety_monitor_"), Skip>> \o JointController_isSafe
        \o SafetyMonitor_isEmergencyStopActive
        \o <<Unlock("safety_monitor_")>>

\* lines 388-403: a controller is unsafe
SafetyMonitor_checkSafety_unsafe ==
    <<Lock("safety_monitor_"), Skip>> \o JointController_isSafe
        \o WriteAll("emergency_stop_active_")
        \o <<Unlock("safety_monitor_")>>

\* lines 388-420: the controllers are safe; isConnected() takes no lock
SafetyMonitor_checkSafety_safe ==
    <<Lock("safety_monitor_"), Skip>> \o JointController_isSafe
        \o <<Skip, Unlock("safety_monitor_")>>

Programs ==
    [read |-> JointSensor_read,
     getState |-> JointSensor_getState,
     setState |-> JointSensor_setState,
     imu_read |-> ImuSensor_read,
     getData |-> ImuSensor_getData,
     setTorque |-> Actuator_setTorque,
     getTorque |-> Actuator_getTorque,
     update |-> JointController_update,
     isSafe |-> JointController_isSafe,
     updateJointState |-> SensorFusion_updateJointState,
     updateImuData |-> SensorFusion_updateImuData,
     getBalanceEstimate |-> SensorFusion_getBalanceEstimate,
     getJointStates |-> SensorFusion_getJointStates,
     isEmergencyStopActive |-> SafetyMonitor_isEmergencyStopActive,
     triggerEmergencyStop |-> SafetyMonitor_triggerEmergencyStop,
     checkSafety_tripped |-> SafetyMonitor_checkSafety_tripped,
     checkSafety_unsafe |-> SafetyMonitor_checkSafety_unsafe,
     checkSafety_safe |-> SafetyMonitor_checkSafety_safe]

Operations == DOMAIN Programs

\* the writers and the readers of the sensors and of the fusion
SnapshotOperations ==
    {"read", "setState", "imu_read", "updateJointState", "updateImuData",
     "getState", "getData", "getBalanceEstimate", "getJointStates"}

\* the write operations a call makes
Writes(op) ==
    Cardinality({ k \in 1..Len(Programs[op]) : Programs[op][k][1] = "version" })

RECURSIVE Written(_)
Written(os) ==
    IF os = {} THEN 0
    ELSE LET o == CHOOSE x \in os : TRUE
         IN  objects[o][1] + Written(os \ {o})

InCall(t) == threads[t].op # "idle"

Instruction(t) == Programs[threads[t].op][threads[t].ip]

Returning(t) == InCall(t) /\ threads[t].ip > Len(Programs[threads[t].op])

\* a thread at a lock() of a mutex that is held waits, also when the
\* holder is the thread itself (std::mutex is not recursive)
Waiting(t) ==
    /\ InCall(t)
    /\ ~Returning(t)
    /\ Instruction(t)[1] = "lock"
    /\ mutexes[Instruction(t)[2]] # 0

Invoke(t) ==
    /\ ~InCall(t)
    /\ \E op \in SnapshotOperations :
          /\ Written(DOMAIN FieldCount) + Writes(op) <= MaxWrites
          /\ threads' = [threads EXCEPT ![t] =
                            [op |-> op, ip |-> 1, id |-> 0, snap |-> {}]]
    /\ UNCHANGED <<coreVars, timing, sched, mutexes, objects, stamps, noise>>

Execute(t) ==
    /\ InCall(t)
    /\ ~Returning(t)
    /\ ~Waiting(t)
    /\ LET ins == Instruction(t)
           th == [threads[t] EXCEPT !.ip = @ + 1]
       IN  /\ mutexes' = IF ins[1] = "lock"
                         THEN [mutexes EXCEPT ![ins[2]] = t]
                         ELSE IF ins[1] = "unlock"
                         THEN [mutexes EXCEPT ![ins[2]] = 0]
                         ELSE mutexes
           /\ objects' = IF ins[1] = "write"
                         THEN [objects EXCEPT ![ins[2]][ins[3]] = th.id]
                         ELSE objects
           /\ threads' = [threads EXCEPT ![t] =
                  IF ins[1] = "version"
                  THEN [th EXCEPT !.id = objects[ins[2]][1] + 1]
                  ELSE IF ins[1] = "copy"
                  THEN [th EXCEPT !.snap =
                           @ \cup {<<ins[2], objects[ins[2]][ins[3]]>>}]
                  ELSE th]
    /\ UNCHANGED <<coreVars, timing, sched, stamps, noise>>

Return(t) ==
    /\ Returning(t)
    /\ threads' = [threads EXCEPT ![t] = IdleThread]
    /\ UNCHANGED <<coreVars, timing, sched, mutexes, objects, stamps, noise>>

NextThreads ==
    \/ \E t \in Threads : Invoke(t)
    \/ \E t \in Threads : Execute(t)
    \/ \E t \in Threads : Return(t)

(***************************************************************************)
(* The locking of every public operation on its own: what is left of a     *)
(* member function when only its lock() and unlock() are kept.             *)
(***************************************************************************)
IsLockStep(ins) == ins[1] \in {"lock", "unlock"}

LockProgram(op) == SelectSeq(Programs[op], IsLockStep)

LockInstruction(t) == LockProgram(threads[t].op)[threads[t].ip]

LockReturning(t) ==
    InCall(t) /\ threads[t].ip > Len(LockProgram(threads[t].op))

AtLock(t) ==
    InCall(t) /\ ~LockReturning(t) /\ LockInstruction(t)[1] = "lock"

LockWaiting(t) == AtLock(t) /\ mutexes[LockInstruction(t)[2]] # 0

Held(t) == {m \in Mutexes : mutexes[m] = t}

Call(t) ==
    /\ ~InCall(t)
    /\ \E op \in Operations :
          threads' = [threads EXCEPT ![t] = [IdleThread EXCEPT !.op = op,
                                                              !.ip = 1]]
    /\ UNCHANGED <<coreVars, timing, sched, mutexes, objects, stamps, noise>>

LockStep(t) ==
    /\ InCall(t)
    /\ ~LockReturning(t)
    /\ ~LockWaiting(t)
    /\ mutexes' = [mutexes EXCEPT ![LockInstruction(t)[2]] =
                      IF LockInstruction(t)[1] = "lock" THEN t ELSE 0]
    /\ threads' = [threads EXCEPT ![t].ip = @ + 1]
    /\ UNCHANGED <<coreVars, timing, sched, objects, stamps, noise>>

Finish(t) ==
    /\ LockReturning(t)
    /\ threads' = [threads EXCEPT ![t] = IdleThread]
    /\ UNCHANGED <<coreVars, timing, sched, mutexes, objects, stamps, noise>>

Progress(t) == LockStep(t) \/ Finish(t)

NextLocks ==
    \/ \E t \in Threads : Call(t)
    \/ \E t \in Threads : LockStep(t)
    \/ \E t \in Threads : Finish(t)

(***************************************************************************)
(* Timestamps.  A JointState or ImuData is stamped steady_clock::now()     *)
(* when it is constructed and by every read(); update() reads its sensor,  *)
(* takes a copy, and stores the copy back with setState() after the        *)
(* actuator's delay.  stamps holds the clock (in ticks), the timestamp     *)
(* stored in a joint sensor of the loop, in a controller's position        *)
(* sensor and in an IMU, and the copy update() holds between its read and  *)
(* its store.  One thread makes the calls, as run() does.                  *)
(***************************************************************************)
MaxClock == 4

NoStamps == [now |-> 0, joint_sensor |-> 0, position_sensor |-> 0,
             imu_sensor |-> 0, held |-> 0, in_update |-> FALSE]

StoredTimestampOfConstruction(state_timestamp) == 0

\* lines 279-280 and 115-118: the whole copy is stored, its timestamp too
StoredTimestamp(state_timestamp) == state_timestamp

\* steady_clock goes on
Tick ==
    /\ stamps.now < MaxClock
    /\ stamps' = [stamps EXCEPT !.now = @ + 1]
    /\ UNCHANGED <<coreVars, timing, sched, mutexes, objects, threads, noise>>

\* line 515 -> line 107
JointSensorRead ==
    /\ ~stamps.in_update
    /\ stamps' = [stamps EXCEPT !.joint_sensor = stamps.now]
    /\ UNCHANGED <<coreVars, timing, sched, mutexes, objects, threads, noise>>

\* line 519 -> line 155
ImuSensorRead ==
    /\ ~stamps.in_update
    /\ stamps' = [stamps EXCEPT !.imu_sensor = stamps.now]
    /\ UNCHANGED <<coreVars, timing, sched, mutexes, objects, threads, noise>>

\* lines 251-252: read() and the copy
UpdateRead ==
    /\ ~stamps.in_update
    /\ stamps' = [stamps EXCEPT !.position_sensor = stamps.now,
                                !.held = stamps.now,
                                !.in_update = TRUE]
    /\ UNCHANGED <<coreVars, timing, sched, mutexes, objects, threads, noise>>

\* lines 273-280: setTorque's delay is over, the copy goes back
UpdateStore ==
    /\ stamps.in_update
    /\ stamps' = [stamps EXCEPT
                     !.position_sensor = StoredTimestamp(stamps.held),
                     !.in_update = FALSE]
    /\ UNCHANGED <<coreVars, timing, sched, mutexes, objects, threads, noise>>

NextStamps ==
    \/ Tick
    \/ JointSensorRead
    \/ ImuSensorRead
    \/ UpdateRead
    \/ UpdateStore

(***************************************************************************)
(* Sensor::addNoise.  noise_counter is a static local of the member        *)
(* function: one int for every sensor of the process.  A sensor's read()   *)
(* holds that sensor's own mutex, so reads of two different sensors on     *)
(* two threads exclude nothing of each other, and noise_counter++ (line    *)
(* 83) is a load and a store of an int with no ordering between the        *)
(* threads.  Each thread reads a sensor of its own: a joint sensor (four   *)
(* applications), an IMU (three), or a sensor constructed with noise level *)
(* 0 (four applications, each returning at line 79).                       *)
(***************************************************************************)
MaxReads == 2

Applications == [joint |-> 4, imu |-> 3, silent |-> 4]
NoiseLevel == [joint |-> 10, imu |-> 1, silent |-> 0]    \* in thousandths

IdleReader == [sensor |-> "none", left |-> 0, loaded |-> -1]

NoNoise == [noise_counter |-> 0, applied |-> 0, reads |-> 0,
            reader |-> [t \in Threads |-> IdleReader]]

\* a thread calls read() on one of its sensors
NoiseRead(t) ==
    /\ noise.reader[t].sensor = "none"
    /\ noise.reads < MaxReads
    /\ \E k \in DOMAIN Applications :
          noise' = [noise EXCEPT !.reads = @ + 1,
                                 !.reader[t] = [sensor |-> k,
                                                left |-> Applications[k],
                                                loaded |-> -1]]
    /\ UNCHANGED <<coreVars, timing, sched, mutexes, objects, threads, stamps>>

\* line 79: noise_level_ <= 0 returns the value as it is
NoiseReturnUnchanged(t) ==
    /\ noise.reader[t].sensor # "none"
    /\ noise.reader[t].left > 0
    /\ NoiseLevel[noise.reader[t].sensor] <= 0
    /\ noise' = [noise EXCEPT !.reader[t].left = @ - 1]
    /\ UNCHANGED <<coreVars, timing, sched, mutexes, objects, threads, stamps>>

\* line 83, the load of noise_counter
NoiseLoad(t) ==
    /\ noise.reader[t].sensor # "none"
    /\ noise.reader[t].left > 0
    /\ NoiseLevel[noise.reader[t].sensor] > 0
    /\ noise.reader[t].loaded = -1
    /\ noise' = [noise EXCEPT !.reader[t].loaded = noise.noise_counter]
    /\ UNCHANGED <<coreVars, timing, sched, mutexes, objects, threads, stamps>>

\* line 83, the store of the incremented value; line 84 returns
NoiseStore(t) ==
    /\ noise.reader[t].loaded # -1
    /\ noise' = [noise EXCEPT !.noise_counter = noise.reader[t].loaded + 1,
                              !.applied = @ + 1,
                              !.reader[t].left = @ - 1,
                              !.reader[t].loaded = -1]
    /\ UNCHANGED <<coreVars, timing, sched, mutexes, objects, threads, stamps>>

\* read() returns
NoiseReadReturn(t) ==
    /\ noise.reader[t].sensor # "none"
    /\ noise.reader[t].left = 0
    /\ noise' = [noise EXCEPT !.reader[t] = IdleReader]
    /\ UNCHANGED <<coreVars, timing, sched, mutexes, objects, threads, stamps>>

NextNoise ==
    \/ \E t \in Threads : NoiseRead(t)
    \/ \E t \in Threads : NoiseReturnUnchanged(t)
    \/ \E t \in Threads : NoiseLoad(t)
    \/ \E t \in Threads : NoiseStore(t)
    \/ \E t \in Threads : NoiseReadReturn(t)

(***************************************************************************)
(* The timing of a cycle of the robot main() builds: six controllers, all  *)
(* enabled by initialize(), updated one after the other.  An enabled       *)
(* update(dt) calls setTorque, which sleeps for at least 1 ms (sleep_for   *)
(* may take longer); the rest of the cycle adds an overhead.  Times are in *)
(* milliseconds, measured by steady_clock from line 511 to line 560.       *)
(* sched holds the frequency run() was constructed with, where the cycle   *)
(* is, its measured time so far, and what the ends of the cycles did.      *)
(***************************************************************************)
MaxSchedCycles == 3

ControlFrequencies == {100, 200}     \* the constructor's default and main's
SettleDelays == {SettleMs, SettleMs + 1}
CycleOverheads == {0, 1}

NoSched == [step |-> "new", frequency |-> 0, cycle |-> 0, updated |-> 0,
            elapsed |-> 0, period |-> 0, waits |-> 0, warnings |-> 0]

UpdateNeverBlocks(enabled, delay) == 0

\* lines 248 and 273 -> 187: the time an update(dt) takes at least
UpdateBlocks(enabled, delay) == IF enabled THEN delay ELSE 0

\* lines 449-450 and 596
SchedConstruct ==
    /\ sched.step = "new"
    /\ \E frequency \in ControlFrequencies :
          sched' = [sched EXCEPT !.step = "top", !.frequency = frequency]
    /\ UNCHANGED <<coreVars, timing, mutexes, objects, threads, stamps, noise>>

\* lines 510-511: the loop test and start_time
SchedStart ==
    /\ sched.step = "top"
    /\ sched.cycle < MaxSchedCycles
    /\ sched' = [sched EXCEPT !.step = "update", !.cycle = @ + 1,
                              !.updated = 0, !.elapsed = 0]
    /\ UNCHANGED <<coreVars, timing, mutexes, objects, threads, stamps, noise>>

\* lines 534-536, one controller of the six
SchedUpdate ==
    /\ sched.step = "update"
    /\ sched.updated < RobotJoints
    /\ \E delay \in SettleDelays :
          sched' = [sched EXCEPT !.updated = @ + 1,
                                 !.elapsed = @ + UpdateBlocks(TRUE, delay)]
    /\ UNCHANGED <<coreVars, timing, mutexes, objects, threads, stamps, noise>>

\* lines 559-569
SchedEnd ==
    /\ sched.step = "update"
    /\ sched.updated = RobotJoints
    /\ \E overhead \in CycleOverheads :
          LET elapsed_time == sched.elapsed + overhead
              dt == 1000 \div sched.frequency
              sleep_time == SleepTime(elapsed_time, dt)
          IN  sched' = [sched EXCEPT
                  !.step = "top",
                  !.elapsed = elapsed_time,
                  !.period = elapsed_time + sleep_time,
                  !.waits = @ + (IF sleep_time > 0 THEN 1 ELSE 0),
                  !.warnings =
                      @ + (IF OverrunWarned(elapsed_time, dt) THEN 1 ELSE 0)]
    /\ UNCHANGED <<coreVars, timing, mutexes, objects, threads, stamps, noise>>

NextSched ==
    \/ SchedConstruct
    \/ SchedStart
    \/ SchedUpdate
    \/ SchedEnd

InitLate ==
    /\ timing = NoTiming
    /\ sched = NoSched
    /\ mutexes = [m \in Mutexes |-> 0]
    /\ objects = [o \in DOMAIN FieldCount |-> [f \in 1..FieldCount[o] |-> 0]]
    /\ threads = [t \in Threads |-> IdleThread]
    /\ stamps = NoStamps
    /\ noise = NoNoise

Init ==
    /\ InitWorld
    /\ InitRunVars
    /\ InitUnitVars
    /\ InitFusion
    /\ InitNominal
    /\ InitLate

Next ==
    \/ \E j \in Joints : Initialize(j)
    \/ \E j \in Joints : Update(j)
    \/ \E j \in Joints : IsSafeCall(j)
    \/ CheckSafety
    \/ IsEmergencyStopActive
    \/ TriggerEmergencyStop
    \/ \E j \in Joints : JointSensorLink(j)
    \/ \E i \in Imus : ImuSensorLink(i)

Spec == Init /\ [][Next]_vars

(***************************************************************************)
(* HumanoidController::run() and the host beside it.  The thread in run()  *)
(* takes the steps of the code in order; the host may call stop() and      *)
(* triggerEmergencyStop() between any two of them.  The sensors' links    *)
(* may change at any time; only checkSafety() reads them, so the model     *)
(* lets them change where the loop is about to call it.                    *)
(*                                                                         *)
(* is_running_ is a plain bool that stop() writes from the host's thread   *)
(* while the loop reads it, with nothing ordering the two: a data race.    *)
(* The loop-top read of a stopped flag may see the write or miss it.       *)
(***************************************************************************)
RunningSeen == IF is_running_ THEN {TRUE} ELSE {TRUE, FALSE}

EStopIgnored(active) == FALSE
EStopEndsLoop(active) == active

ReportedCause(active) == IF active THEN "emergency" ELSE "normal"

RunInitialize ==
    /\ pc = "run"
    /\ ctl' = [j \in Joints |-> [ctl[j] EXCEPT !.enabled_ = TRUE]]
    /\ pc' = "set_running"
    /\ UNCHANGED <<abs_is_int, emergency_stop_active_, js_connected,
                   imu_connected, obsVars, histVars, is_running_, exit_cause,
                   reported, stop_requested, stop_early, cycles, cycles_after_stop,
                   cycles_after_trip, unitVars, fusionVars, fp_torque, nom, lateVars>>

RunSetRunning ==
    /\ pc = "set_running"
    /\ is_running_' = TRUE
    /\ pc' = "while_running"
    /\ UNCHANGED <<worldVars, obsVars, histVars, exit_cause, reported,
                   stop_requested, stop_early, cycles, cycles_after_stop,
                   cycles_after_trip, unitVars, fusionVars, fp_torque, nom, lateVars>>

WhileRunning ==
    /\ pc = "while_running"
    /\ \E seen \in RunningSeen :
          IF seen
          THEN pc' = "while_estop" /\ UNCHANGED exit_cause
          ELSE pc' = "report" /\ exit_cause' = "stop"
    /\ UNCHANGED <<worldVars, obsVars, histVars, is_running_, reported,
                   stop_requested, stop_early, cycles, cycles_after_stop,
                   cycles_after_trip, unitVars, fusionVars, fp_torque, nom, lateVars>>

WhileEStop ==
    /\ pc = "while_estop"
    /\ IF EStopEndsLoop(emergency_stop_active_)
       THEN /\ pc' = "report"
            /\ exit_cause' = "trip"
            /\ UNCHANGED <<cycles, cycles_after_stop, cycles_after_trip, unitVars, fusionVars, fp_torque, nom, lateVars>>
       ELSE /\ cycles < MaxCycles
            /\ pc' = "read_sensors"
            /\ cycles' = cycles + 1
            /\ cycles_after_stop' =
                   cycles_after_stop + (IF stop_requested THEN 1 ELSE 0)
            /\ cycles_after_trip' =
                   cycles_after_trip + (IF emergency_stop_active_ THEN 1 ELSE 0)
            /\ UNCHANGED exit_cause
    /\ UNCHANGED <<worldVars, obsVars, histVars, is_running_, reported,
                   stop_requested, stop_early, unitVars, fusionVars, fp_torque, nom, lateVars>>

(***************************************************************************)
(* The body of the loop (lines 511-569) has no break, return or test of    *)
(* is_running_ or of the latch: a step of a cycle is followed by the next  *)
(* step whatever the two are.                                              *)
(***************************************************************************)
CycleAbortsWhenAsked(running, active) == ~running \/ active
CycleAborts(running, active) == FALSE

AfterStep(next) ==
    IF CycleAborts(is_running_, emergency_stop_active_) THEN "report"
    ELSE next

(***************************************************************************)
(* Line 511 takes start_time, so nothing of the cycle before is left in   *)
(* timing.  Lines 514-520: read() of every joint sensor, then of every IMU.  A     *)
(* read adds 0.01*sin(time) to the position it holds (line 103) and turns  *)
(* the IMU by its angular velocity; the sensors of one cycle are read at   *)
(* practically one clock value, so one step of SensorSteps moves them all. *)
(* The unit values of the fusion are explored by SpecFusion.               *)
(***************************************************************************)
SensorSteps == {-1, 1}

ReadSensors ==
    /\ pc = "read_sensors"
    /\ \E step \in SensorSteps :
          /\ joint_sensors_' =
                 [j \in Joints |->
                    [position |-> joint_sensors_[j].position + step,
                     timestamp |-> cycles]]
          /\ imu_sensors_' =
                 [i \in Imus |->
                    [roll |-> imu_sensors_[i].roll + step,
                     timestamp |-> cycles]]
    /\ timing' = NoTiming
    /\ pc' = AfterStep("fusion")
    /\ UNCHANGED <<worldVars, obsVars, histVars, is_running_, exit_cause,
                   reported, stop_requested, stop_early, cycles,
                   cycles_after_stop, cycles_after_trip, unitVars,
                   joint_states_, imu_data_, balance_estimate_, fusion_hist,
                   fp_torque, nom, sched, mutexes, objects, threads, stamps,
                   noise>>

(***************************************************************************)
(* Lines 523-531: updateJointState with each joint sensor's state under    *)
(* the controller's name, in order, then updateImuData with each IMU's.    *)
(***************************************************************************)
FusionInputStale(j) == joint_states_[j]
FusionInput(j) == joint_sensors_[j]

RECURSIVE FuseJoints(_, _)
FuseJoints(estimate, n) ==
    IF n = 0 THEN estimate
    ELSE FusionJointState(FuseJoints(estimate, n - 1), n, FusionInput(n))

RECURSIVE FuseImus(_, _)
FuseImus(estimate, n) ==
    IF n = 0 THEN estimate
    ELSE UpdateBalanceEstimateFromImu(FuseImus(estimate, n - 1),
                                      imu_sensors_[n].roll)

UpdateFusion ==
    /\ pc = "fusion"
    /\ joint_states_' = [j \in AllJoints |->
                            IF j \in Joints THEN FusionInput(j)
                            ELSE joint_states_[j]]
    /\ imu_data_' = imu_sensors_
    /\ balance_estimate_' =
           FuseImus(FuseJoints(balance_estimate_, NumJoints), NumImus)
    /\ fusion_hist' = [n |-> fusion_hist.n + NumJoints + NumImus,
                       call |-> "run", key |-> cycles, value |-> 0,
                       before |-> balance_estimate_]
    /\ pc' = AfterStep("controllers")
    /\ UNCHANGED <<worldVars, obsVars, histVars, is_running_, exit_cause,
                   reported, stop_requested, stop_early, cycles,
                   cycles_after_stop, cycles_after_trip, unitVars,
                   joint_sensors_, imu_sensors_, fp_torque, nom, lateVars>>

(***************************************************************************)
(* Lines 534-536: update(dt) of every controller, each reading its own     *)
(* position sensor: a nominal sample, or one off the target and over       *)
(* max_velocity_.                                                          *)
(***************************************************************************)
LoopSamples == { <<0, 0, 2500>>, <<-1, 550, 2500>> }

UpdateControllers ==
    /\ pc = "controllers"
    /\ \E s \in [Joints -> LoopSamples] :
          /\ \A j \in Joints :
                Mag(ctl[j].error_sum_
                    + (ctl[j].target_position_ - s[j][1]) * LoopDt)
                  <= MaxErrorSum
          /\ ctl' = [j \in Joints |-> UpdateController(ctl[j], s[j], LoopDt)]
    /\ pc' = AfterStep("check")
    /\ UNCHANGED <<abs_is_int, emergency_stop_active_, js_connected,
                   imu_connected, obsVars, histVars, is_running_, exit_cause,
                   reported, stop_requested, stop_early, cycles, cycles_after_stop,
                   cycles_after_trip, unitVars, fusionVars, fp_torque, nom, lateVars>>

RunCheckSafety ==
    /\ pc = "check"
    /\ MonitorCheckSafety
    /\ pc' = AfterStep("timing")
    /\ UNCHANGED <<is_running_, exit_cause, reported, stop_requested,
                   stop_early, cycles, cycles_after_stop, cycles_after_trip, unitVars, fusionVars, fp_torque, nom, lateVars>>

ControlTiming ==
    /\ pc = "timing"
    /\ \E overhead \in Overheads :
          LET elapsed_time ==
                  SettleMs * Cardinality({j \in Joints : ctl[j].enabled_})
                  + overhead
          IN  timing' = [elapsed |-> elapsed_time,
                         slept |-> SleepTime(elapsed_time, PeriodMs),
                         warned |-> OverrunWarned(elapsed_time, PeriodMs)]
    /\ pc' = AfterStep("while_running")
    /\ UNCHANGED <<worldVars, obsVars, histVars, is_running_, exit_cause,
                   reported, stop_requested, stop_early, cycles,
                   cycles_after_stop, cycles_after_trip, unitVars, fusionVars,
                   fp_torque, nom, sched, mutexes, objects, threads, stamps,
                   noise>>

(***************************************************************************)
(* Lines 572-576: after the loop run() prints why it ended and returns.    *)
(* It calls nothing on the controllers or their actuators.                 *)
(***************************************************************************)
ControllersZeroedAtExit(controllers) ==
    [j \in Joints |-> [controllers[j] EXCEPT !.current_torque_ = 0]]

ControllersAtExit(controllers) == controllers

Report ==
    /\ pc = "report"
    /\ reported' = ReportedCause(emergency_stop_active_)
    /\ ctl' = ControllersAtExit(ctl)
    /\ pc' = "done"
    /\ UNCHANGED <<abs_is_int, emergency_stop_active_, js_connected,
                   imu_connected, obsVars, histVars, is_running_, exit_cause,
                   stop_requested, stop_early, cycles, cycles_after_stop,
                   cycles_after_trip, unitVars, fusionVars, fp_torque, nom, lateVars>>

Stop ==
    /\ pc # "done"
    /\ is_running_' = FALSE
    /\ stop_requested' = TRUE
    /\ stop_early' = (stop_early \/ pc \in {"run", "set_running"})
    /\ UNCHANGED <<worldVars, obsVars, histVars, pc, exit_cause, reported,
                   cycles, cycles_after_stop, cycles_after_trip, unitVars, fusionVars, fp_torque, nom, lateVars>>

HostTrigger ==
    /\ pc # "done"
    /\ MonitorTrigger
    /\ UNCHANGED <<runVars, unitVars, fusionVars, fp_torque, nom, lateVars>>

Driver ==
    \/ RunInitialize
    \/ RunSetRunning
    \/ WhileRunning
    \/ WhileEStop
    \/ ReadSensors
    \/ UpdateFusion
    \/ UpdateControllers
    \/ RunCheckSafety
    \/ ControlTiming
    \/ Report

NextRun ==
    \/ RunInitialize
    \/ RunSetRunning
    \/ WhileRunning
    \/ WhileEStop
    \/ ReadSensors
    \/ UpdateFusion
    \/ UpdateControllers
    \/ RunCheckSafety
    \/ ControlTiming
    \/ Report
    \/ Stop
    \/ HostTrigger
    \/ \E j \in Joints : pc = "check" /\ JointSensorLink(j)
    \/ \E i \in Imus : pc = "check" /\ ImuSensorLink(i)

(***************************************************************************)
(* Every step of run() returns: the locks it takes are held by the host    *)
(* only for the length of a call, and its waits are bounded.  So the       *)
(* thread in run() keeps taking steps; the host need not.                  *)
(***************************************************************************)
SpecRun == Init /\ [][NextRun]_vars /\ WF_vars(Driver)

(***************************************************************************)
(* Threads writing and reading one joint sensor, one IMU and the fusion.   *)
(***************************************************************************)
SpecThreads == Init /\ [][NextThreads]_vars

(***************************************************************************)
(* The cycles of run() against the clock.                                  *)
(***************************************************************************)
SpecSched == Init /\ [][NextSched]_vars

(***************************************************************************)
(* Two threads, each calling read() on sensors of its own.                 *)
(***************************************************************************)
SpecNoise == Init /\ [][NextNoise]_vars

(***************************************************************************)
(* One thread reading sensors and updating a controller while the clock    *)
(* goes on.                                                                *)
(***************************************************************************)
SpecStamps == Init /\ [][NextStamps]_vars

(***************************************************************************)
(* Threads calling any of the public operations of one joint's controller, *)
(* one IMU, the fusion and the monitor.  Fair scheduling: a thread that    *)
(* can go on again and again does go on, also at a mutex that others keep  *)
(* taking.                                                                 *)
(***************************************************************************)
SpecLocks ==
    Init /\ [][NextLocks]_vars /\ \A t \in Threads : SF_vars(Progress(t))

(***************************************************************************)
(* An Actuator on its own: setTorque with any command, getTorque.          *)
(***************************************************************************)
TorqueCommands ==
    { n * Scale * TicksPerSecond :
        n \in {-1000, -51, -50, -49, -1, 0, 1, 49, 50, 51, 1000} }
    \cup {MaxTorque + 1, -MaxTorque - 1}

ActuatorSetTorque ==
    /\ n_commands < MaxCommands
    /\ \E torque \in TorqueCommands \cup {act} :
          /\ act' = SetTorque(torque)
          /\ commanded' = torque
    /\ n_commands' = n_commands + 1
    /\ Void
    /\ UNCHANGED <<worldVars, histVars, runVars, pre, dt_used, unit_pc,
                   fusionVars, fp_torque, nom, lateVars>>

ActuatorGetTorque ==
    /\ lastOp' = "getTorque"
    /\ ret' = act
    /\ reason' = "none"
    /\ evaluated' = <<>>
    /\ UNCHANGED <<worldVars, histVars, runVars, unitVars, fusionVars, fp_torque, nom, lateVars>>

NextActuator ==
    \/ ActuatorSetTorque
    \/ ActuatorGetTorque

SpecActuator == Init /\ [][NextActuator]_vars

(***************************************************************************)
(* One update(dt) of a controller found in any state of the input sets,    *)
(* with any sample read and any dt > 0 of DtTicks.                         *)
(***************************************************************************)
TargetInputs == {-MaxPosition, 0, 100}
ErrorSumInputs == {-200, 0, 200}
LastErrorInputs == {-100, 0, 100}
SampleInputs ==
    {-400, -1, 0, 1, 100, 350}
    \X {-600, -550, -500, -499, 0, 499, 500, 550, 600}
    \X {2500, 6300, 6301, 6500, 7000}

ControllerInputs ==
    { [InitController EXCEPT !.enabled_ = en, !.target_position_ = tp,
                             !.error_sum_ = es, !.last_error_ = le] :
        en \in BOOLEAN, tp \in TargetInputs, es \in ErrorSumInputs,
        le \in LastErrorInputs }

InitUpdate ==
    /\ abs_is_int \in BOOLEAN
    /\ \E c \in ControllerInputs :
          ctl = [j \in Joints |-> IF j = 1 THEN c ELSE InitController]
    /\ emergency_stop_active_ = FALSE
    /\ js_connected = [j \in Joints |-> TRUE]
    /\ imu_connected = [i \in Imus |-> TRUE]
    /\ lastOp = "void"
    /\ ret = TRUE
    /\ reason = "none"
    /\ evaluated = <<>>
    /\ unsafe_seen = FALSE
    /\ stop_triggered = FALSE
    /\ disconnect_seen = FALSE
    /\ InitRunVars
    /\ InitUnitVars
    /\ InitFusion
    /\ InitNominal
    /\ InitLate

UnitUpdate ==
    /\ unit_pc = "input"
    /\ \E s \in SampleInputs, dt \in DtTicks :
          /\ ctl' = [ctl EXCEPT ![1] = UpdateController(ctl[1], s, dt)]
          /\ dt_used' = dt
    /\ pre' = ctl[1]
    /\ unit_pc' = "output"
    /\ UNCHANGED <<abs_is_int, emergency_stop_active_, js_connected,
                   imu_connected, obsVars, histVars, runVars, act, commanded,
                   n_commands, fusionVars, fp_torque, nom, lateVars>>

NextUpdate == UnitUpdate

SpecUpdate == InitUpdate /\ [][NextUpdate]_vars

(***************************************************************************)
(* update(dt) with any dt the caller may pass, 0 included.  The code       *)
(* divides by dt as it is given (line 257).  In IEEE arithmetic x/0.0 is   *)
(* +inf or -inf by the sign of x, and 0.0/0.0 is NaN; error_sum_ gets      *)
(* error*0.0 added.  An infinite or NaN derivative makes the PID sum the   *)
(* same; the velocity branch replaces it by 0; halving keeps the class;    *)
(* std::clamp turns an infinity into the limit of its side and returns a   *)
(* NaN as it is.  fp_torque records the divisor and the class of the       *)
(* torque command (what setTorque is passed and what is written to         *)
(* state.torque) and of the actuator's stored torque.  A torque field of   *)
(* ctl whose class is not "finite" keeps the number it had.                *)
(***************************************************************************)
DtInputs == {0} \cup DtTicks

DerivativeClass(error, last_error, dt) ==
    IF dt # 0 THEN "finite"
    ELSE IF error = last_error THEN "nan"
    ELSE IF error > last_error THEN "+inf"
    ELSE "-inf"

TorqueClass(c, state, dt) ==
    IF CAbs(state.velocity) > MaxVelocity THEN "finite"
    ELSE DerivativeClass(c.target_position_ - state.position, c.last_error_, dt)

StoredClass(class) == IF class = "nan" THEN "nan" ELSE "finite"

UpdateControllerZeroDt(c, s) ==
    LET state == ReadSample(c.state_, s)
        error == c.target_position_ - state.position
        class == TorqueClass(c, state, 0)
    IN  [c EXCEPT !.last_error_ = error,
                  !.current_torque_ =
                      IF class = "finite" THEN 0
                      ELSE IF class = "+inf" THEN MaxTorque
                      ELSE IF class = "-inf" THEN -MaxTorque
                      ELSE c.current_torque_,
                  !.state_ = IF class = "finite"
                             THEN [state EXCEPT !.torque = 0]
                             ELSE state]

UnitUpdateAnyDt ==
    /\ unit_pc = "input"
    /\ \E s \in SampleInputs, dt \in DtInputs :
          /\ dt_used' = dt
          /\ IF ~ctl[1].enabled_
             THEN UNCHANGED <<ctl, fp_torque>>
             ELSE LET class == TorqueClass(ctl[1], ReadSample(ctl[1].state_, s), dt)
                  IN  /\ ctl' = [ctl EXCEPT ![1] =
                                    IF dt = 0
                                    THEN UpdateControllerZeroDt(ctl[1], s)
                                    ELSE UpdateController(ctl[1], s, dt)]
                      /\ fp_torque' = [divisor |-> dt, command |-> class,
                                       stored |-> StoredClass(class)]
    /\ pre' = ctl[1]
    /\ unit_pc' = "output"
    /\ UNCHANGED <<abs_is_int, emergency_stop_active_, js_connected,
                   imu_connected, obsVars, histVars, runVars, act, commanded,
                   n_commands, fusionVars, nom, lateVars>>

NextDt == UnitUpdateAnyDt

SpecDt == InitUpdate /\ [][NextDt]_vars

(***************************************************************************)
(* The nominal scenario: main()'s robot (six joints, two IMUs, 200 Hz),    *)
(* all targets 0, from rest, nothing but the simulated sensors acting.     *)
(* Here the reads are computed as the code computes them, from the wall    *)
(* clock and the noise counter, on a finer grid than the rest of the       *)
(* model: angles, velocities, torques and temperatures in units of 1e-5    *)
(* (Fine per 1.0), the clock in milliradians of phase, advancing 5 per     *)
(* cycle (dt = 0.005 s).  The clock's phase when run() starts is any of    *)
(* NominalPhases.  nom holds the clock, the cycle number, the shared       *)
(* noise_counter and the first controller (left_hip) with its position     *)
(* sensor; the other five controllers see the same clock and differ only   *)
(* in the noise.                                                           *)
(*                                                                         *)
(* SinMilli(x) is 1000*sin(x/1000) by Bhaskara's rational approximation    *)
(* 16y(pi-y) / (5pi^2 - 4y(pi-y)), whose error is below 0.002; over 1000   *)
(* cycles that is below 0.02 rad of position.                              *)
(***************************************************************************)
Fine == 100000
NominalCycles == 1000
ClockPerCycle == 5
HalfTurn == 3142
FullTurn == 6283
FinePi == 314159

NominalPhases == {0, 785, 1571, 2356, 3142, 3927, 4712, 5498}

SinHalf(y) ==
    LET q == y * (HalfTurn - y)
    IN  (250 * q) \div ((5 * HalfTurn * HalfTurn - 4 * q) \div 64)

SinMilli(x) ==
    LET y == x % FullTurn
    IN  IF y < HalfTurn THEN SinHalf(y) ELSE -SinHalf(y - HalfTurn)

CosMilli(x) == SinMilli(x + HalfTurn \div 2)

\* Sensor::addNoise at noise_level 0.001, as the n-th call of the process
AddNoise(value, n) == value + SinMilli(100 * n) \div 10

FineAbs(x) == IF abs_is_int THEN (Mag(x) \div Fine) * Fine ELSE Mag(x)

\* JointSensor::read of the controller's position sensor
NominalRead(m) ==
    LET position == AddNoise(m.position + SinMilli(m.clock), m.noise + 1)
        velocity == AddNoise(m.velocity + CosMilli(m.clock) \div 10,
                             m.noise + 2)
        torque == AddNoise(m.torque + 5 * SinMilli(2 * m.clock), m.noise + 3)
        temperature == AddNoise(m.temperature + FineAbs(torque) \div 10000,
                                m.noise + 4)
    IN  [m EXCEPT !.position = position, !.velocity = velocity,
                  !.torque = torque, !.temperature = temperature,
                  !.noise = m.noise + 4]

\* JointController::update(dt) with dt = 1/200 and target_position_ = 0
NominalControl(m) ==
    LET error == 0 - m.position
        error_sum == m.error_sum + error \div TicksPerSecond
        derivative == (error - m.last_error) * TicksPerSecond
        pid == Kp * error + Ki * error_sum + Kd * derivative
        limited == IF FineAbs(m.velocity) > 5 * Fine THEN 0 ELSE pid
        command == IF 10 * m.temperature > 9 * 70 * Fine
                   THEN limited \div 2 ELSE limited
    IN  [m EXCEPT !.error_sum = error_sum, !.last_error = error,
                  !.current_torque = Clamp(command, -50 * Fine, 50 * Fine),
                  !.torque = command]

\* JointController::isSafe
NominalSafe(m) ==
    /\ m.temperature < 70 * Fine
    /\ FineAbs(m.velocity) < 5 * Fine
    /\ FineAbs(m.position) <= FinePi
    /\ FineAbs(m.position) >= -FinePi

NominalTop ==
    /\ nom.step = "top"
    /\ IF nom.tripped
       THEN nom' = [nom EXCEPT !.step = "done"]
       ELSE /\ nom.cycle < NominalCycles
            /\ nom' = [nom EXCEPT !.step = "sensors", !.cycle = nom.cycle + 1]
    /\ UNCHANGED <<worldVars, obsVars, histVars, runVars, unitVars,
                   fusionVars, fp_torque, lateVars>>

\* lines 514-520: four addNoise calls a joint sensor, three an IMU
NominalSensors ==
    /\ nom.step = "sensors"
    /\ nom' = [nom EXCEPT !.step = "controllers",
                          !.noise = nom.noise + 4 * RobotJoints
                                    + 3 * RobotImus]
    /\ UNCHANGED <<worldVars, obsVars, histVars, runVars, unitVars,
                   fusionVars, fp_torque, lateVars>>

\* lines 534-536: the first controller, then the reads of the others
NominalUpdate ==
    /\ nom.step = "controllers"
    /\ LET m == NominalControl(NominalRead(nom))
       IN  nom' = [m EXCEPT !.step = "check",
                            !.noise = m.noise + 4 * (RobotJoints - 1)]
    /\ UNCHANGED <<worldVars, obsVars, histVars, runVars, unitVars,
                   fusionVars, fp_torque, lateVars>>

\* line 539, every sensor connected
NominalCheck ==
    /\ nom.step = "check"
    /\ nom' = [nom EXCEPT !.step = "wait",
                          !.safe = ~nom.tripped /\ NominalSafe(nom),
                          !.tripped = nom.tripped \/ ~NominalSafe(nom)]
    /\ UNCHANGED <<worldVars, obsVars, histVars, runVars, unitVars,
                   fusionVars, fp_torque, lateVars>>

\* lines 560-569: the cycle takes its period
NominalWait ==
    /\ nom.step = "wait"
    /\ nom' = [nom EXCEPT !.step = "top",
                          !.clock = nom.clock + ClockPerCycle]
    /\ UNCHANGED <<worldVars, obsVars, histVars, runVars, unitVars,
                   fusionVars, fp_torque, lateVars>>

InitNominalRun ==
    /\ InitWorld
    /\ InitRunVars
    /\ InitUnitVars
    /\ InitFusion
    /\ fp_torque = [divisor |-> LoopDt, command |-> "finite",
                    stored |-> "finite"]
    /\ \E phase \in NominalPhases :
          nom = [NominalStart EXCEPT !.clock = phase]
    /\ InitLate

NextNominal ==
    \/ NominalTop
    \/ NominalSensors
    \/ NominalUpdate
    \/ NominalCheck
    \/ NominalWait

SpecNominal == InitNominalRun /\ [][NextNominal]_vars

(***************************************************************************)
(* A SensorFusion on its own: updateJointState for any of the six joint    *)
(* names and updateImuData, with any sample.                               *)
(***************************************************************************)
MaxFusionCalls == 2

FusionPositions == {-50, 0, 50}
FusionRolls == {0, 10}

FusionUpdateJointState(j) ==
    /\ fusion_hist.n < MaxFusionCalls
    /\ \E position \in FusionPositions :
          LET state == [position |-> position, timestamp |-> fusion_hist.n + 1]
          IN  /\ joint_states_' = [joint_states_ EXCEPT ![j] = state]
              /\ balance_estimate_' =
                     FusionJointState(balance_estimate_, j, state)
              /\ fusion_hist' = [n |-> fusion_hist.n + 1, call |-> "joint",
                                 key |-> j, value |-> position,
                                 before |-> balance_estimate_]
    /\ Void
    /\ UNCHANGED <<worldVars, histVars, runVars, unitVars, joint_sensors_,
                   imu_sensors_, imu_data_, fp_torque, nom, lateVars>>

FusionUpdateImuData(i) ==
    /\ fusion_hist.n < MaxFusionCalls
    /\ \E roll \in FusionRolls :
          LET data == [roll |-> roll, timestamp |-> fusion_hist.n + 1]
          IN  /\ imu_data_' = [imu_data_ EXCEPT ![i] = data]
              /\ balance_estimate_' =
                     UpdateBalanceEstimateFromImu(balance_estimate_, roll)
              /\ fusion_hist' = [n |-> fusion_hist.n + 1, call |-> "imu",
                                 key |-> i, value |-> roll,
                                 before |-> balance_estimate_]
    /\ Void
    /\ UNCHANGED <<worldVars, histVars, runVars, unitVars, joint_sensors_,
                   imu_sensors_, joint_states_, fp_torque, nom, lateVars>>

GetBalanceEstimate ==
    /\ lastOp' = "getBalanceEstimate"
    /\ ret' = balance_estimate_
    /\ reason' = "none"
    /\ evaluated' = <<>>
    /\ UNCHANGED <<worldVars, histVars, runVars, unitVars, fusionVars,
                   fp_torque, nom, lateVars>>

NextFusion ==
    \/ \E j \in AllJoints : FusionUpdateJointState(j)
    \/ \E i \in Imus : FusionUpdateImuData(i)
    \/ GetBalanceEstimate

SpecFusion == Init /\ [][NextFusion]_vars

(***************************************************************************)
(* JointController::setTargetPosition on a controller found in any state   *)
(* of the input sets, with any position asked for.                         *)
(***************************************************************************)
PositionCommands == {-1000, -315, -314, -313, 0, 100, 313, 314, 315, 1000}

ClampTargetUpperOnly(position) ==
    IF position > MaxPosition THEN MaxPosition ELSE position

ClampTarget(position) == Clamp(position, MinPosition, MaxPosition)

SetTargetPosition(j) ==
    /\ n_commands < MaxCommands
    /\ \E position \in PositionCommands :
          /\ ctl' = [ctl EXCEPT ![j].target_position_ = ClampTarget(position)]
          /\ commanded' = position
    /\ n_commands' = n_commands + 1
    /\ pre' = ctl[j]
    /\ Void
    /\ UNCHANGED <<abs_is_int, emergency_stop_active_, js_connected,
                   imu_connected, histVars, runVars, act, dt_used, unit_pc,
                   fusionVars, fp_torque, nom, lateVars>>

NextTarget == \E j \in Joints : SetTargetPosition(j)

SpecTarget == InitUpdate /\ [][NextTarget]_vars

(***************************************************************************)
(* C1.  Latching: once a checkSafety() has found a controller whose        *)
(* isSafe() is false, every checkSafety() from then on returns false,      *)
(* whatever the joint states and the sensors' links have become.           *)
(***************************************************************************)
C1_Latching ==
    (unsafe_seen /\ lastOp = "checkSafety") => ret = FALSE

C1_Witness ==
    /\ unsafe_seen /\ ~stop_triggered
    /\ lastOp = "checkSafety" /\ reason = "estop"
    /\ AllSafe /\ AllConnected

(***************************************************************************)
(* C2.  After triggerEmergencyStop(), called in any state, the latch is    *)
(* set and stays set: isEmergencyStopActive() returns true and every       *)
(* checkSafety() returns false, whatever is called in between.             *)
(***************************************************************************)
C2_TriggerLatches ==
    stop_triggered =>
        /\ emergency_stop_active_
        /\ lastOp = "checkSafety" => ret = FALSE
        /\ lastOp = "isEmergencyStopActive" => ret = TRUE

C2_Witness ==
    /\ stop_triggered /\ ~unsafe_seen
    /\ lastOp = "checkSafety" /\ ret = FALSE
    /\ AllSafe /\ AllConnected

(***************************************************************************)
(* C3.  A disconnected sensor does not latch: in state Normal with every   *)
(* controller safe, checkSafety() returns false when some sensor is        *)
(* disconnected and leaves the state Normal, and returns true when all     *)
(* are connected.                                                          *)
(***************************************************************************)
C3_DisconnectDoesNotLatch ==
    /\ [][(CheckSafety /\ ~emergency_stop_active_ /\ AllSafe /\ ~AllConnected)
            => (ret' = FALSE /\ ~emergency_stop_active_')]_vars
    /\ [][(CheckSafety /\ ~emergency_stop_active_ /\ AllSafe /\ AllConnected)
            => (ret' = TRUE /\ ~emergency_stop_active_')]_vars

C3_Witness ==
    /\ disconnect_seen
    /\ lastOp = "checkSafety" /\ ret = TRUE

(***************************************************************************)
(* C4.  A trip ends the loop: no iteration is started with the latch set   *)
(* (so none after the one in flight when it was set, and none at all when  *)
(* it was set before the loop was reached), and run() then returns.        *)
(***************************************************************************)
C4_TripEndsLoop ==
    /\ [](cycles_after_trip = 0)
    /\ emergency_stop_active_ ~> (pc = "done")

C4_Witness ==
    /\ pc = "done" /\ exit_cause = "trip"
    /\ unsafe_seen /\ ~stop_requested /\ cycles > 0

(***************************************************************************)
(* C5.  A stop ends the loop: once stop() has been requested, at whatever  *)
(* point of run(), no iteration beyond the one in flight is started: none  *)
(* at all when it was requested before the loop was entered, and at most   *)
(* the one whose loop-top test was under way otherwise.                    *)
(***************************************************************************)
C5_StopEndsLoop ==
    /\ stop_early => cycles = 0
    /\ cycles_after_stop <= 1

(***************************************************************************)
(* C6.  run() reports the cause that ended the loop: "safety emergency"    *)
(* exactly when the latch ended it, "stopped normally" exactly when the    *)
(* stop flag did.                                                          *)
(***************************************************************************)
C6_CauseReported ==
    pc = "done" =>
        /\ reported = "emergency" <=> exit_cause = "trip"
        /\ reported = "normal" <=> exit_cause = "stop"

(***************************************************************************)
(* C7.  A disconnected sensor alone does not end the loop: after a cycle   *)
(* whose checkSafety() returned false for a disconnected sensor, with no   *)
(* stop() and no triggerEmergencyStop() requested, the loop-top test does  *)
(* not leave the loop.                                                     *)
(***************************************************************************)
C7_DisconnectKeepsLooping ==
    [][(/\ pc \in {"while_running", "while_estop"}
        /\ reason \in SensorReasons
        /\ ~stop_requested /\ ~stop_triggered)
       => pc' # "report"]_vars

C7_Witness ==
    /\ pc = "read_sensors"
    /\ reason \in SensorReasons /\ ret = FALSE
    /\ ~stop_requested /\ ~stop_triggered

(***************************************************************************)
(* C8.  The actuator clamps: after any commands the stored torque is       *)
(* within [-max_torque_, max_torque_] and is the last command clamped,     *)
(* getTorque() returns it, and commanding the stored torque again leaves   *)
(* it as it is.                                                            *)
(***************************************************************************)
C8_ActuatorClamp ==
    /\ [](-MaxTorque <= act /\ act <= MaxTorque)
    /\ [](n_commands > 0 =>
            /\ commanded > MaxTorque => act = MaxTorque
            /\ commanded < -MaxTorque => act = -MaxTorque
            /\ (-MaxTorque <= commanded /\ commanded <= MaxTorque)
                  => act = commanded)
    /\ [](lastOp = "getTorque" => ret = act)
    /\ [][(n_commands' = n_commands + 1 /\ commanded' = act)
            => act' = act]_vars

C8_Witness ==
    /\ n_commands = MaxCommands
    /\ commanded = act /\ act = -MaxTorque
    /\ lastOp = "getTorque"

(***************************************************************************)
(* C9.  Velocity interlock: an enabled update(dt), dt > 0, that measures   *)
(* |velocity| over max_velocity_ commands a torque of exactly 0.           *)
(***************************************************************************)
C9_VelocityInterlock ==
    (/\ unit_pc = "output" /\ pre.enabled_
     /\ Mag(ctl[1].state_.velocity) > MaxVelocity)
    => (ctl[1].state_.torque = 0 /\ ctl[1].current_torque_ = 0)

(***************************************************************************)
(* C10.  Thermal derating: an enabled update(dt) that measures |velocity|  *)
(* within max_velocity_ commands exactly half of kp*error + ki*integral +  *)
(* kd*derivative when the temperature is over 0.9 * max_temperature_, and  *)
(* all of it otherwise.                                                    *)
(***************************************************************************)
RawPid ==
    LET error == pre.target_position_ - ctl[1].state_.position
    IN  PidOutput(error, ctl[1].error_sum_, pre.last_error_, dt_used)

C10_ThermalDerating ==
    (/\ unit_pc = "output" /\ pre.enabled_
     /\ Mag(ctl[1].state_.velocity) <= MaxVelocity)
    => IF 10 * ctl[1].state_.temperature > 9 * MaxTemperature
       THEN 2 * ctl[1].state_.torque = RawPid
       ELSE ctl[1].state_.torque = RawPid

C10_Witness ==
    /\ unit_pc = "output" /\ pre.enabled_
    /\ Mag(ctl[1].state_.velocity) = MaxVelocity
    /\ ctl[1].state_.temperature = 6301
    /\ RawPid # 0 /\ 2 * ctl[1].state_.torque = RawPid

(***************************************************************************)
(* C11.  Zero error gives zero output: one update(dt), dt > 0, of an       *)
(* enabled controller at rest (stored position 0, velocity 0, integral 0,  *)
(* previous error 0, target 0) commands a torque of exactly 0.  The read   *)
(* inside update moves the stored position by 0.01*sin(time) plus noise    *)
(* of at most 0.001, so the property is stated for reads that leave        *)
(* velocity and temperature alone and move the position by no more than    *)
(* ReadReach.                                                              *)
(***************************************************************************)
ReadReach == 1

C11_ZeroErrorZeroOutput ==
    (/\ unit_pc = "output"
     /\ pre = [InitController EXCEPT !.enabled_ = TRUE]
     /\ Mag(ctl[1].state_.position) <= ReadReach
     /\ ctl[1].state_.velocity = 0
     /\ ctl[1].state_.temperature = InitJointState.temperature)
    => (ctl[1].state_.torque = 0 /\ ctl[1].current_torque_ = 0)

(***************************************************************************)
(* C12.  A disabled update is a no-op: update(dt) of a controller whose    *)
(* enabled_ is false stores no sensor sample, leaves error_sum_,           *)
(* last_error_, target_position_ and the joint state as they were and      *)
(* commands nothing to the actuator.                                       *)
(***************************************************************************)
C12_DisabledNoOp ==
    (unit_pc = "output" /\ ~pre.enabled_) => ctl[1] = pre

C12_Witness ==
    /\ unit_pc = "output" /\ ~pre.enabled_ /\ ctl[1] = pre
    /\ pre.target_position_ = 100 /\ pre.error_sum_ = 200
    /\ pre.last_error_ = -100

(***************************************************************************)
(* C13.  isSafe() returns true exactly when temperature < max_temperature, *)
(* |velocity| < max_velocity and min_position <= position <= max_position. *)
(***************************************************************************)
C13_IsSafeExact ==
    [][\A j \in Joints :
         IsSafeCall(j) =>
           (ret' <=> /\ ctl[j].state_.temperature < MaxTemperature
                     /\ Mag(ctl[j].state_.velocity) < MaxVelocity
                     /\ MinPosition <= ctl[j].state_.position
                     /\ ctl[j].state_.position <= MaxPosition)]_vars

(***************************************************************************)
(* C14.  setTargetPosition(p) stores p clamped into [min_position_,        *)
(* max_position_], so the stored target is always inside the bounds, and   *)
(* it changes nothing else of the controller.                              *)
(***************************************************************************)
C14_TargetClamped ==
    /\ [](\A j \in Joints : /\ MinPosition <= ctl[j].target_position_
                             /\ ctl[j].target_position_ <= MaxPosition)
    /\ [][\A j \in Joints :
            SetTargetPosition(j) =>
              /\ commanded' > MaxPosition
                    => ctl'[j].target_position_ = MaxPosition
              /\ commanded' < MinPosition
                    => ctl'[j].target_position_ = MinPosition
              /\ (MinPosition <= commanded' /\ commanded' <= MaxPosition)
                    => ctl'[j].target_position_ = commanded'
              /\ ctl' = [ctl EXCEPT ![j].target_position_ =
                                       ctl'[j].target_position_]]_vars

C14_Witness ==
    /\ n_commands = MaxCommands
    /\ commanded = -1000 /\ ctl[1].target_position_ = MinPosition
    /\ pre.target_position_ = MaxPosition
    /\ ctl[1].enabled_ /\ ctl[1].error_sum_ = 200 /\ ctl[1].last_error_ = -100

(***************************************************************************)
(* C15.  Balance fusion: updateJointState for a hip joint (left_hip,       *)
(* right_hip) sets the estimate to 0.7*estimate + 0.3*position,            *)
(* updateImuData sets it to 0.8*estimate + 0.2*roll, updateJointState for  *)
(* any other joint leaves it alone, each applied to the one estimate in    *)
(* call order; from 0.0, a hip update with position 0.5 gives 0.15 and an  *)
(* IMU update with roll 0.1 after it gives 0.14.                           *)
(***************************************************************************)
C15_BalanceFusion ==
    LET h == fusion_hist
        weighted(a, b, x) == (a * h.before + b * x * 10000) \div 10
    IN  /\ (h.call = "joint" /\ h.key \in {1, 4})
              => balance_estimate_ = weighted(7, 3, h.value)
        /\ (h.call = "joint" /\ h.key \in {2, 3, 5, 6})
              => balance_estimate_ = h.before
        /\ h.call = "imu" => balance_estimate_ = weighted(8, 2, h.value)
        /\ (h.call = "joint" /\ h.key \in {1, 4} /\ h.before = 0
                /\ h.value = 50)
              => balance_estimate_ = 150000
        /\ (h.call = "imu" /\ h.before = 150000 /\ h.value = 10)
              => balance_estimate_ = 140000
        /\ lastOp = "getBalanceEstimate" => ret = balance_estimate_

C15_Witness ==
    /\ fusion_hist.n = 2 /\ fusion_hist.call = "imu"
    /\ fusion_hist.before = 150000 /\ fusion_hist.value = 10
    /\ joint_states_[4].position = 50
    /\ lastOp = "getBalanceEstimate" /\ ret = 140000

(***************************************************************************)
(* C16.  dt guard: an enabled update(dt) called with dt = 0 does not       *)
(* divide by that dt (the step is rejected or dt replaced by a positive    *)
(* default), so the torque it commands and the torque the actuator stores  *)
(* are finite numbers.                                                     *)
(***************************************************************************)
C16_DtGuard ==
    (unit_pc = "output" /\ pre.enabled_)
    => /\ fp_torque.divisor > 0
       /\ fp_torque.command = "finite"
       /\ fp_torque.stored = "finite"

C19_CycleCompletes ==
    /\ [][/\ pc = "read_sensors" => pc' \in {"read_sensors", "fusion"}
          /\ pc = "fusion" => pc' \in {"fusion", "controllers"}
          /\ pc = "controllers" => pc' \in {"controllers", "check"}
          /\ pc = "check" => pc' \in {"check", "timing"}
          /\ pc = "timing" => pc' \in {"timing", "while_running"}]_vars
    /\ (pc = "read_sensors") ~> (pc = "while_running")

C19_Witness ==
    /\ pc = "timing" /\ lastOp = "checkSafety"
    /\ stop_requested /\ ~is_running_ /\ cycles_after_stop = 0
    /\ stop_triggered /\ emergency_stop_active_ /\ cycles_after_trip = 0
    /\ cycles = 1

(***************************************************************************)
(* C20.  Per-cycle ordering: every iteration reads the sensors, then       *)
(* pushes each reading into the fusion, then updates every controller,     *)
(* then calls checkSafety, then waits; the fusion of cycle n holds the     *)
(* samples read in cycle n; and a cycle starts only from the loop top,     *)
(* which is reached only from the end-of-cycle wait (or from the start of  *)
(* run()).                                                                 *)
(***************************************************************************)
C20_CycleOrder ==
    /\ [][pc' # pc =>
            /\ pc' = "fusion" => pc = "read_sensors"
            /\ pc' = "controllers" => pc = "fusion"
            /\ pc' = "check" => pc = "controllers"
            /\ pc' = "timing" => (pc = "check" /\ lastOp' = "checkSafety")
            /\ pc' = "while_running" => pc \in {"timing", "set_running"}
            /\ pc' = "while_estop" => pc = "while_running"
            /\ pc' = "read_sensors"
                  => (pc = "while_estop" /\ cycles' = cycles + 1)]_vars
    /\ [](pc \in {"fusion", "controllers", "check", "timing"}
            => /\ \A j \in Joints : joint_sensors_[j].timestamp = cycles
               /\ \A i \in Imus : imu_sensors_[i].timestamp = cycles)
    /\ [](pc \in {"controllers", "check", "timing"}
            => /\ \A j \in Joints : joint_states_[j] = joint_sensors_[j]
               /\ \A i \in Imus : imu_data_[i] = imu_sensors_[i]
               /\ \A j \in Joints : joint_states_[j].timestamp = cycles
               /\ \A i \in Imus : imu_data_[i].timestamp = cycles)

C20_Witness ==
    /\ pc = "controllers" /\ cycles = MaxCycles
    /\ joint_states_[1].timestamp = MaxCycles
    /\ joint_states_[1].position = 0
    /\ imu_data_[1].timestamp = MaxCycles
    /\ balance_estimate_ # 0

C21_OverrunHandling ==
    [][ /\ (pc = "timing" /\ pc' # pc)
           => /\ pc' = "while_running"
              /\ cycles' = cycles
              /\ timing'.elapsed < PeriodMs
                    => /\ timing'.slept = PeriodMs - timing'.elapsed
                       /\ ~timing'.warned
              /\ timing'.elapsed > PeriodMs
                    => /\ timing'.slept = 0
                       /\ timing'.warned
        /\ cycles' # cycles
           => /\ cycles' = cycles + 1
              /\ pc = "while_estop"
              /\ pc' = "read_sensors"
      ]_vars

\* a second cycle has started after the first overran
C21_Witness ==
    /\ pc = "read_sensors"
    /\ cycles = 2
    /\ timing.warned
    /\ timing.elapsed > PeriodMs
    /\ timing.slept = 0

(***************************************************************************)
(* C22.  Non-torn snapshots: whatever the interleaving of writers and      *)
(* readers, the fields a reader has copied of an object all come from one  *)
(* and the same write operation, and so does the value it returns.         *)
(***************************************************************************)
C22_NoTornSnapshot ==
    \A t \in Threads :
       \A x, y \in threads[t].snap : x[1] = y[1] => x[2] = y[2]

\* getState returns the whole state of the first write while the second
\* write, which had to wait for it, is under way
C22_Witness ==
    \E t, u \in Threads :
       /\ threads[t].op = "getState"
       /\ Returning(t)
       /\ threads[t].snap = {<<"state_", 1>>}
       /\ threads[u].op \in {"read", "setState"}
       /\ mutexes["position_sensor_"] = u
       /\ objects["state_"][1] = 2
       /\ objects["state_"][5] = 1

(***************************************************************************)
(* C23.  No indefinite blocking: a thread asks for a second mutex only     *)
(* while holding the monitor's and only for a position sensor's (one       *)
(* order, never the mutex it holds); whenever some thread is inside an     *)
(* operation, one of the threads inside an operation can go on; and under  *)
(* fair scheduling every operation called returns.                         *)
(***************************************************************************)
C23_NoIndefiniteBlocking ==
    /\ [](\A t \in Threads :
            AtLock(t) =>
               \A m \in Held(t) :
                  /\ m = "safety_monitor_"
                  /\ LockInstruction(t)[2] = "position_sensor_")
    /\ []((\E t \in Threads : InCall(t))
            => \E t \in Threads : InCall(t) /\ ~LockWaiting(t))
    /\ \A t \in Threads : InCall(t) ~> ~InCall(t)

\* checkSafety, holding the monitor's mutex, waits at the sensor's mutex
\* for a read() of the other thread
C23_Witness ==
    \E t, u \in Threads :
       /\ threads[t].op = "checkSafety_unsafe"
       /\ Held(t) = {"safety_monitor_"}
       /\ LockWaiting(t)
       /\ threads[u].op = "read"
       /\ Held(u) = {"position_sensor_"}

(***************************************************************************)
(* C24.  Timestamps are monotone per entity: the timestamp stored in a     *)
(* joint sensor, in a controller's position sensor (written by read() and  *)
(* again by setState() in every update) and in an IMU never decreases.     *)
(***************************************************************************)
C24_TimestampsMonotone ==
    [][ /\ stamps'.joint_sensor >= stamps.joint_sensor
        /\ stamps'.position_sensor >= stamps.position_sensor
        /\ stamps'.imu_sensor >= stamps.imu_sensor ]_vars

\* a second update has stored its copy back after the clock went on
C24_Witness ==
    /\ ~stamps.in_update
    /\ stamps.position_sensor = 2
    /\ stamps.held = 2
    /\ stamps.now = 3
    /\ stamps.joint_sensor = 1
    /\ stamps.imu_sensor = 1

(***************************************************************************)
(* C25.  Shared noise counter: under any interleaving of read() calls on   *)
(* different sensors, once the calls have returned the counter has         *)
(* advanced by exactly the number of noise applications with amplitude     *)
(* above 0 that were made; an application with amplitude 0 advances        *)
(* nothing.                                                                *)
(***************************************************************************)
C25_CounterCountsApplications ==
    (\A t \in Threads : noise.reader[t].sensor = "none")
       => noise.noise_counter = noise.applied

(***************************************************************************)
(* C26.  Interlock implies trip in the same cycle: when an update of the   *)
(* cycle measured |velocity| over max_velocity_, the checkSafety() of that *)
(* cycle returns false and leaves the latch set; and with the latch set    *)
(* and that measurement in the sensor no controller is commanded again     *)
(* and no cycle is started.                                                *)
(***************************************************************************)
C26_InterlockTrips ==
    [][ /\ (/\ pc = "check" /\ pc' # pc
            /\ \E j \in Joints : Mag(ctl[j].state_.velocity) > MaxVelocity)
           => /\ lastOp' = "checkSafety"
              /\ ret' = FALSE
              /\ emergency_stop_active_'
        /\ (/\ emergency_stop_active_
            /\ \E j \in Joints : Mag(ctl[j].state_.velocity) > MaxVelocity)
           => /\ ctl' = ctl
              /\ cycles' = cycles
      ]_vars

\* the interlock has zeroed the command and the check of the cycle tripped
C26_Witness ==
    /\ pc = "timing"
    /\ cycles = 1
    /\ \E j \in Joints : /\ CAbs(ctl[j].state_.velocity) > MaxVelocity
                         /\ ctl[j].enabled_
                         /\ ctl[j].current_torque_ = 0
    /\ lastOp = "checkSafety"
    /\ ret = FALSE
    /\ reason = "controller"
    /\ emergency_stop_active_
    /\ ~stop_triggered

(***************************************************************************)
(* C27.  A trip changes only the latch: the step that sets the latch, a    *)
(* checkSafety() or a triggerEmergencyStop(), leaves every controller as   *)
(* it was (stored torque, target, integral, previous error, enabled        *)
(* flag), and so does everything run() does from the end of the loop on:   *)
(* when run() has returned, the actuators hold what the last cycle         *)
(* commanded.                                                              *)
(***************************************************************************)
C27_TripChangesOnlyLatch ==
    [][ /\ (~emergency_stop_active_ /\ emergency_stop_active_')
           => /\ ctl' = ctl
              /\ UNCHANGED <<js_connected, imu_connected, is_running_,
                             fusionVars>>
        /\ (pc \in {"report", "done"} \/ pc' \in {"report", "done"})
           => ctl' = ctl
      ]_vars

\* run() has returned after a trip by checkSafety() and the actuator still
\* holds the nonzero torque of the last cycle
C27_Witness ==
    /\ pc = "done"
    /\ exit_cause = "trip"
    /\ unsafe_seen
    /\ ~stop_triggered
    /\ \E j \in Joints : /\ ctl[j].current_torque_ # 0
                         /\ ctl[j].current_torque_ = SetTorque(ctl[j].state_.torque)
                         /\ ctl[j].enabled_

(***************************************************************************)
(* C28.  The default configuration overruns in every cycle: with six       *)
(* controllers at 200 Hz every cycle is measured at 6 ms or more, so no    *)
(* end-of-cycle wait ever happens, every cycle reports an overrun, and     *)
(* the period achieved is never the 5 ms asked for.                        *)
(***************************************************************************)
C28_AlwaysOverruns ==
    (sched.frequency = 200 /\ sched.step = "top" /\ sched.cycle > 0)
    => /\ sched.elapsed >= RobotJoints * SettleMs
       /\ sched.waits = 0
       /\ sched.warnings = sched.cycle
       /\ sched.period > 1000 \div sched.frequency

\* three cycles at 200 Hz, each with the shortest delays, each overrun
C28_Witness ==
    /\ sched.frequency = 200
    /\ sched.step = "top"
    /\ sched.cycle = MaxSchedCycles
    /\ sched.elapsed = RobotJoints * SettleMs
    /\ sched.period = RobotJoints * SettleMs
    /\ sched.warnings = MaxSchedCycles
    /\ sched.waits = 0

=============================================================================
